---- MODULE Spec2Model ----
(***************************************************************************)
(* jotai-x: scoped atom stores.                                            *)
(*                                                                         *)
(* The model follows createAtomProvider / useAtomStore (the registry and   *)
(* the Provider component), createAtomStore (the accessor surface),        *)
(* useHydrateStore / useSyncStore (the hydration and sync bridge) and      *)
(* atomWithFn (the function-value codec).                                  *)
(*                                                                         *)
(* A React commit is modelled in two steps: the render phase of a Provider *)
(* (Mount / Render, which includes the render of HydrateAtoms and of the   *)
(* context consumers below it) and the passive effects of that commit      *)
(* (RunEffects).                                                           *)
(***************************************************************************)
EXTENDS Integers, Sequences, FiniteSets, TLC

(***************************************************************************)
(* JavaScript values.  Every value is a record tagged with its typeof.     *)
(***************************************************************************)
Undefined == [t |-> "undefined"]
Null == [t |-> "null"]
Num(n) == [t |-> "number", n |-> n]
Str(s) == [t |-> "string", s |-> s]
Fn(id) == [t |-> "function", id |-> id]
Bool(b) == [t |-> "boolean", b |-> b]

\* JavaScript truthiness of a value: if (v) ...
Truthy(v) ==
  CASE v.t = "undefined" -> FALSE
    [] v.t = "null" -> FALSE
    [] v.t = "number" -> v.n # 0
    [] v.t = "string" -> v.s # ""
    [] v.t = "boolean" -> v.b
    [] OTHER -> TRUE

\* A JavaScript object is a function from its own keys to their values;
\* o[k] of a missing key is undefined.
EmptyObject == <<>>

HasKey(o, k) == k \in DOMAIN o

\* { ...a, ...b }: every own key of b, present with whatever value (also
\* undefined), overrides the key of a.
Spread(a, b) ==
  [k \in (DOMAIN a) \cup (DOMAIN b) |-> IF k \in DOMAIN b THEN b[k] ELSE a[k]]

\* The own enumerable keys of a string primitive are its character indices:
\* { ..."xy" } is { 0: "x", 1: "y" }.
StringKeys(s) == {ToString(i - 1) : i \in 1..Len(s)}

StringAsObject(s) ==
  [k \in StringKeys(s) |->
     LET i == CHOOSE j \in 1..Len(s) : ToString(j - 1) = k
     IN SubSeq(s, i, i)]

\* What the spread operator copies out of an options-or-scope argument.
OwnProps(x) ==
  IF "t" \in DOMAIN x
    THEN (IF x.t = "string" THEN StringAsObject(x.s) ELSE EmptyObject)
    ELSE x

(***************************************************************************)
(* atomWithFn: the function-value codec.                                   *)
(***************************************************************************)
Wrapped(f) == [t |-> "object", keys |-> {"__fn"}, fn |-> f]

wrapFn(fnOrValue) ==
  IF fnOrValue.t = "function" THEN Wrapped(fnOrValue) ELSE fnOrValue

unwrapFn(wrappedFnOrValue) ==
  IF /\ Truthy(wrappedFnOrValue)
     /\ wrappedFnOrValue.t = "object"
     /\ "__fn" \in wrappedFnOrValue.keys
    THEN wrappedFnOrValue.fn
    ELSE wrappedFnOrValue

(***************************************************************************)
(* The registry: a Map from "storeName:scope" to a store instance.  Store  *)
(* instances are identified by the number createStore() gave them; 0 is    *)
(* undefined (no instance).                                                *)
(***************************************************************************)
NoStore == 0

getFullyQualifiedScope(storeName, scope) == storeName \o ":" \o scope

PROVIDER_SCOPE == "provider"

\* Map.prototype.get
MapGet(m, key) == IF key \in DOMAIN m THEN m[key] ELSE NoStore

\* Map.prototype.set on a copy
MapSet(m, key, value) ==
  [k \in (DOMAIN m) \cup {key} |-> IF k = key THEN value ELSE m[k]]

\* Mutant: the fallback to the "provider" scope is missing.
useAtomStore_noFallback(storeContext, storeName, scopeArg, warnIfUndefined) ==
  LET scope == IF scopeArg = Undefined THEN PROVIDER_SCOPE ELSE scopeArg.s
      k1 == getFullyQualifiedScope(storeName, scope)
      store == MapGet(storeContext, k1)
  IN [store |-> store,
      consulted |-> {k1},
      warned |-> (store = NoStore) /\ warnIfUndefined]

\* useAtomStore over the snapshot read from the context.  The result also
\* records the keys handed to Map.get and whether console.warn was called.
useAtomStore(storeContext, storeName, scopeArg, warnIfUndefined) ==
  LET scope == IF scopeArg = Undefined THEN PROVIDER_SCOPE ELSE scopeArg.s
      k1 == getFullyQualifiedScope(storeName, scope)
      k2 == getFullyQualifiedScope(storeName, PROVIDER_SCOPE)
      first == MapGet(storeContext, k1)
      store == IF first # NoStore THEN first ELSE MapGet(storeContext, k2)
  IN [store |-> store,
      consulted |-> IF first # NoStore THEN {k1} ELSE {k1, k2},
      warned |-> (store = NoStore) /\ warnIfUndefined]

(***************************************************************************)
(* createAtomStore: options, the store resolver and the accessor bundle.   *)
(* An options object has a subset of the keys scope (a string value or     *)
(* undefined), store (an instance, NoStore for undefined) and              *)
(* warnIfNoStore (a boolean).  An options-or-scope argument is undefined   *)
(* (argument omitted), a string value, or an options object.               *)
(***************************************************************************)
convertScopeShorthand(optionsOrScope) ==
  IF "t" \in DOMAIN optionsOrScope
    THEN (IF optionsOrScope.t = "string"
            THEN ("scope" :> optionsOrScope)
            ELSE EmptyObject)
    ELSE optionsOrScope

\* Mutant: the instance of the registry wins over options.store.
useStore_contextFirst(name, storeContext, optionsOrScope) ==
  LET options == convertScopeShorthand(optionsOrScope)
      scope == IF HasKey(options, "scope") THEN options.scope ELSE Undefined
      store == IF HasKey(options, "store") THEN options.store ELSE NoStore
      warnIfNoStore ==
        IF HasKey(options, "warnIfNoStore") THEN options.warnIfNoStore ELSE TRUE
      contextStore ==
        useAtomStore(storeContext, name, scope,
                     (store = NoStore) /\ warnIfNoStore)
  IN [store |->
        IF contextStore.store # NoStore THEN contextStore.store ELSE store,
      consulted |-> contextStore.consulted,
      warned |-> contextStore.warned]

\* Mutant: the diagnostic is asked for also when a store is passed.
useStore_warnWithStore(name, storeContext, optionsOrScope) ==
  LET options == convertScopeShorthand(optionsOrScope)
      scope == IF HasKey(options, "scope") THEN options.scope ELSE Undefined
      store == IF HasKey(options, "store") THEN options.store ELSE NoStore
      warnIfNoStore ==
        IF HasKey(options, "warnIfNoStore") THEN options.warnIfNoStore ELSE TRUE
      contextStore == useAtomStore(storeContext, name, scope, warnIfNoStore)
  IN [store |-> IF store # NoStore THEN store ELSE contextStore.store,
      consulted |-> contextStore.consulted,
      warned |-> contextStore.warned]

useStore(name, storeContext, optionsOrScope) ==
  LET options == convertScopeShorthand(optionsOrScope)
      scope == IF HasKey(options, "scope") THEN options.scope ELSE Undefined
      store == IF HasKey(options, "store") THEN options.store ELSE NoStore
      warnIfNoStore ==
        IF HasKey(options, "warnIfNoStore") THEN options.warnIfNoStore ELSE TRUE
      contextStore ==
        useAtomStore(storeContext, name, scope,
                     (store = NoStore) /\ warnIfNoStore)
  IN [store |-> IF store # NoStore THEN store ELSE contextStore.store,
      consulted |-> contextStore.consulted,
      warned |-> contextStore.warned]

useAtomValueWithStore(name, storeContext, optionsOrScope) ==
  LET options == convertScopeShorthand(optionsOrScope)
  IN useStore(name, storeContext,
              Spread(("warnIfNoStore" :> FALSE), options))

useSetAtomWithStore(name, storeContext, optionsOrScope) ==
  useStore(name, storeContext, optionsOrScope)

useAtomWithStore(name, storeContext, optionsOrScope) ==
  useStore(name, storeContext, optionsOrScope)

\* Mutant: the spread is the wrong way round, the defaults override the
\* per-call options.
withDefaultOptions_defaultsWin(defaultOptions, options) ==
  Spread(OwnProps(options), defaultOptions)

\* One entry of withDefaultOptions(fnRecord, defaultOptions): the argument
\* that the wrapping function hands to fn when it is called with options.
withDefaultOptions(defaultOptions, options) ==
  Spread(defaultOptions, OwnProps(options))

\* The accessors of the bundle use<Name>Store(defaultOptions).
Accessors ==
  {"get", "set", "use", "get.atom", "set.atom", "use.atom", "store"}

\* The store that the accessor of the bundle useStoreApi(defaultOptions)
\* resolves when it is called with options under the snapshot storeContext.
useStoreApi(name, storeContext, accessor, defaultOptions, options) ==
  LET merged == Spread(convertScopeShorthand(defaultOptions),
                       convertScopeShorthand(options))
      wrapped == withDefaultOptions(convertScopeShorthand(defaultOptions),
                                    options)
  IN CASE accessor = "get" ->
            useAtomValueWithStore(name, storeContext, wrapped)
       [] accessor = "set" ->
            useSetAtomWithStore(name, storeContext, wrapped)
       [] accessor = "use" ->
            useAtomWithStore(name, storeContext, wrapped)
       [] accessor = "get.atom" ->
            useAtomValueWithStore(name, storeContext, merged)
       [] accessor = "set.atom" ->
            useSetAtomWithStore(name, storeContext, merged)
       [] accessor = "use.atom" ->
            useAtomWithStore(name, storeContext, merged)
       [] accessor = "store" -> useStore(name, storeContext, merged)

(***************************************************************************)
(* The declared store: createAtomStore(initialState, {name}).  Every field *)
(* of initialState is a raw value, so every field gets a cell made by      *)
(* atomWithFn and is writable.  An atom is identified by its field key;    *)
(* cells[s][k] is the value of the base atom of field k in instance s.     *)
(***************************************************************************)
initialState == [count |-> Num(0), fn |-> Fn("f0")]

\* An atom config: a record with the flag write ('write' in atomConfig).
Atom(origin, key, write) ==
  [t |-> "atom", write |-> write, id |-> <<origin, key>>]

isAtom(possibleAtom) == possibleAtom.t = "atom"

writableAtomsWithoutExtend ==
  {key \in DOMAIN initialState : ~isAtom(initialState[key])}

\* The extension of the declared store: extend: (atoms) => ({ double:
\* atom((get) => get(atoms.count) * 2) }), a read-only derived atom.
extend == ("double" :> Atom("extend", "double", FALSE))

Twice(v) == IF v.t = "number" THEN Num(2 * v.n) ELSE v

\* atom(wrapFn(initialValue)): the value of the base atom in an instance
\* that never wrote it.
atomWithFn(initialValue) == wrapFn(initialValue)

\* The read function of the atom returned by atomWithFn.
AtomRead(baseValue) == unwrapFn(baseValue)

\* The write function of the atom returned by atomWithFn: the value that
\* set(baseAtom, wrapFn(value)) leaves in the base atom.
AtomWrite(value) == wrapFn(value)

\* Mutant: the value is kept with the atom, not with the instance, so that
\* every instance sees the write.
StoreSet_sharedByInstances(cellsIn, store, key, value) ==
  [s \in DOMAIN cellsIn |-> [cellsIn[s] EXCEPT ![key] = AtomWrite(value)]]

\* store.set(atom of key, value) on the instance store.
StoreSet(cellsIn, store, key, value) ==
  [cellsIn EXCEPT ![store][key] = AtomWrite(value)]

\* store.get of the atom bound to a field of the final field set.
ReadField(cellsIn, store, key) ==
  IF key \in DOMAIN extend
    THEN Twice(AtomRead(cellsIn[store].count))
    ELSE AtomRead(cellsIn[store][key])

\* values[key] of an object.
Prop(o, key) == IF key \in DOMAIN o THEN o[key] ELSE Undefined

(***************************************************************************)
(* createAtomStore(state, {extend}): the cells, the writability table and  *)
(* the accessor families of a declaration.  An atom that is handed in is a *)
(* record with the flag write ('write' in atomConfig); extendedAtoms is    *)
(* what extend(atomsWithoutExtend) returns.                                *)
(***************************************************************************)
\* The function getAtoms[key], setAtoms[key] or useAtoms[key].
FieldAccessor(family, key, atomConfig) ==
  [kind |-> "field", family |-> family, key |-> key, atom |-> atomConfig]

\* The function get.atom, set.atom or use.atom of a bundle.
AtomAccessor(family) == [kind |-> "atom", family |-> family]

\* Mutant: on a key of both the base cell wins over the cell of the
\* extension.
createAtomStore_baseWins(state, extendedAtoms) ==
  LET atomsWithoutExtend ==
        [key \in DOMAIN state |->
           IF isAtom(state[key]) THEN state[key]
           ELSE Atom("atomWithFn", key, TRUE)]
      baseIsWritable ==
        [key \in DOMAIN state |-> atomsWithoutExtend[key].write]
      atoms == Spread(extendedAtoms, atomsWithoutExtend)
      atomIsWritable ==
        Spread([key \in DOMAIN extendedAtoms |-> extendedAtoms[key].write],
               baseIsWritable)
      writable == {key \in DOMAIN atoms : atomIsWritable[key]}
  IN [atoms |-> atoms,
      atomIsWritable |-> atomIsWritable,
      writableAtomsWithoutExtend |->
        {key \in DOMAIN state : baseIsWritable[key]},
      getAtoms |-> [key \in DOMAIN atoms |-> FieldAccessor("get", key, atoms[key])],
      setAtoms |-> [key \in writable |-> FieldAccessor("set", key, atoms[key])],
      useAtoms |-> [key \in writable |-> FieldAccessor("use", key, atoms[key])]]

createAtomStore(state, extendedAtoms) ==
  LET atomsWithoutExtend ==
        [key \in DOMAIN state |->
           IF isAtom(state[key]) THEN state[key]
           ELSE Atom("atomWithFn", key, TRUE)]
      baseIsWritable ==
        [key \in DOMAIN state |-> atomsWithoutExtend[key].write]
      atoms == Spread(atomsWithoutExtend, extendedAtoms)
      atomIsWritable ==
        Spread(baseIsWritable,
               [key \in DOMAIN extendedAtoms |-> extendedAtoms[key].write])
      writable == {key \in DOMAIN atoms : atomIsWritable[key]}
  IN [atoms |-> atoms,
      atomIsWritable |-> atomIsWritable,
      writableAtomsWithoutExtend |->
        {key \in DOMAIN state : baseIsWritable[key]},
      getAtoms |-> [key \in DOMAIN atoms |-> FieldAccessor("get", key, atoms[key])],
      setAtoms |-> [key \in writable |-> FieldAccessor("set", key, atoms[key])],
      useAtoms |-> [key \in writable |-> FieldAccessor("use", key, atoms[key])]]

\* The object useStoreApi(defaultOptions) returns: withDefaultOptions keeps
\* the keys of a family, and the key atom is set after the spread.
StoreApiBundle(api) ==
  [get |-> Spread(api.getAtoms, ("atom" :> AtomAccessor("get"))),
   set |-> Spread(api.setAtoms, ("atom" :> AtomAccessor("set"))),
   use |-> Spread(api.useAtoms, ("atom" :> AtomAccessor("use")))]

(***************************************************************************)
(* useHydrateStore, with jotai's useHydrateAtoms: an atom is written       *)
(* during the render unless the instance's hydrated set already has it.    *)
(***************************************************************************)
\* Mutant: useHydrateAtoms is called with dangerouslyForceHydrate.
useHydrateStore_force(atoms, initialValues, store, cellsIn, hydratedIn) ==
  LET values == {key \in atoms : Prop(initialValues, key) # Undefined}
  IN [cells |->
        [cellsIn EXCEPT ![store] =
           [key \in DOMAIN @ |->
              IF key \in values
                THEN AtomWrite(initialValues[key]) ELSE @[key]]],
      hydrated |-> [hydratedIn EXCEPT ![store] = @ \cup values],
      written |-> values]

\* Mutant: the hydrated marks are kept per atom and not per instance, so a
\* fresh instance is not hydrated with what an earlier instance was.
useHydrateStore_marksShared(atoms, initialValues, store, cellsIn, hydratedIn) ==
  LET values == {key \in atoms : Prop(initialValues, key) # Undefined}
      marked == UNION {hydratedIn[s] : s \in DOMAIN hydratedIn}
      written == {key \in values : key \notin marked}
  IN [cells |->
        [cellsIn EXCEPT ![store] =
           [key \in DOMAIN @ |->
              IF key \in written
                THEN AtomWrite(initialValues[key]) ELSE @[key]]],
      hydrated |-> [hydratedIn EXCEPT ![store] = @ \cup written],
      written |-> written]

useHydrateStore(atoms, initialValues, store, cellsIn, hydratedIn) ==
  LET values == {key \in atoms : Prop(initialValues, key) # Undefined}
      written == {key \in values : key \notin hydratedIn[store]}
  IN [cells |->
        [cellsIn EXCEPT ![store] =
           [key \in DOMAIN @ |->
              IF key \in written
                THEN AtomWrite(initialValues[key]) ELSE @[key]]],
      hydrated |-> [hydratedIn EXCEPT ![store] = @ \cup written],
      written |-> written]

(***************************************************************************)
(* useSyncStore: one effect per atom with dependencies [set, value]; set   *)
(* is the setter of useSetAtom, whose identity follows the store.  deps    *)
(* holds the dependencies of the last run, NoDeps before the first.        *)
(***************************************************************************)
NoDeps == <<NoStore, Undefined>>

\* Mutant: value is missing from the dependencies of the effect.
useSyncStore_setOnly(atoms, values, store, deps, cellsIn) ==
  LET run == {key \in atoms : deps[key][1] # store}
      written ==
        {key \in run :
           Prop(values, key) # Undefined /\ Prop(values, key) # Null}
  IN [cells |->
        [cellsIn EXCEPT ![store] =
           [key \in DOMAIN @ |->
              IF key \in written THEN AtomWrite(values[key]) ELSE @[key]]],
      deps |-> [key \in atoms |-> <<store, Prop(values, key)>>],
      written |-> written]

useSyncStore_noDeps(atoms, values, store, deps, cellsIn) ==
  LET run == atoms
      written ==
        {key \in run :
           Prop(values, key) # Undefined /\ Prop(values, key) # Null}
  IN [cells |->
        [cellsIn EXCEPT ![store] =
           [key \in DOMAIN @ |->
              IF key \in written THEN AtomWrite(values[key]) ELSE @[key]]],
      deps |-> [key \in atoms |-> <<store, Prop(values, key)>>],
      written |-> written]

\* Mutant: the effect skips undefined only, a null prop is written.
useSyncStore_nullWritten(atoms, values, store, deps, cellsIn) ==
  LET run == {key \in atoms : deps[key] # <<store, Prop(values, key)>>}
      written == {key \in run : Prop(values, key) # Undefined}
  IN [cells |->
        [cellsIn EXCEPT ![store] =
           [key \in DOMAIN @ |->
              IF key \in written THEN AtomWrite(values[key]) ELSE @[key]]],
      deps |-> [key \in atoms |-> <<store, Prop(values, key)>>],
      written |-> written]

useSyncStore(atoms, values, store, deps, cellsIn) ==
  LET run == {key \in atoms : deps[key] # <<store, Prop(values, key)>>}
      written ==
        {key \in run :
           Prop(values, key) # Undefined /\ Prop(values, key) # Null}
  IN [cells |->
        [cellsIn EXCEPT ![store] =
           [key \in DOMAIN @ |->
              IF key \in written THEN AtomWrite(values[key]) ELSE @[key]]],
      deps |-> [key \in atoms |-> <<store, Prop(values, key)>>],
      written |-> written]

(***************************************************************************)
(* The component tree.  A Provider p is mounted under Provider parent[p],  *)
(* or under the root (0), where the context has its default value, an      *)
(* empty Map.  A consumer at position q is a component whose nearest       *)
(* context provider is the one rendered by Provider q.                     *)
(***************************************************************************)
Providers == {1, 2}

Root == 0

Positions == {Root} \cup Providers

\* The number of store instances createStore() may hand out.
MaxStores == 2

Stores == 1..MaxStores

VARIABLES
  phase,         \* per Provider: "unmounted", "rendered" (committed, passive
                 \* effects pending), "idle", "dirty" (setStoreState queued)
  parent,        \* per Provider: its position in the tree
  storeScope,    \* per Provider: the store name createAtomProvider was given
  props,         \* per Provider: the props of its last render
  storeState,    \* per Provider: the state of React.useState
  pendingStore,  \* per Provider: the argument of a queued setStoreState
  storeContext,  \* per position: the value the context provides there
  resetDeps,     \* per Provider: [resetKey] of the last commit
  syncDeps,      \* per Provider and atom: [set, value] of the last commit
  nextStore,     \* the identity of the next instance createStore() returns
  cells,         \* per instance and atom: the value of the base atom
  hydrated,      \* per instance: the atoms useHydrateAtoms has hydrated
  renders,       \* history: per instance, the renders that used it (0, 1, 2+)
  hydrationLog,  \* history: per instance and atom, the render numbers of
                 \* the hydration writes
  synced,        \* history: per Provider, the atoms written by the sync
                 \* effects of its last commit
  last           \* history: the last accessor call and what it resolved

vars ==
  <<phase, parent, storeScope, props, storeState, pendingStore, storeContext,
    resetDeps, syncDeps, nextStore, cells, hydrated, renders, hydrationLog,
    synced, last>>

Mounted(p) == phase[p] # "unmounted"

Reachable(pos) == IF pos = Root THEN TRUE ELSE Mounted(pos)

NoProps ==
  [scope |-> Undefined, resetKey |-> Undefined,
   initialValues |-> EmptyObject, fields |-> EmptyObject]

\* The dependency array of an effect that has not run yet.
NoResetDeps == [t |-> "none"]

NoCall == [op |-> "none"]

InitialCells == [key \in DOMAIN initialState |-> atomWithFn(initialState[key])]

Init ==
  /\ phase = [p \in Providers |-> "unmounted"]
  /\ parent = [p \in Providers |-> Root]
  /\ storeScope = [p \in Providers |-> ""]
  /\ props = [p \in Providers |-> NoProps]
  /\ storeState = [p \in Providers |-> NoStore]
  /\ pendingStore = [p \in Providers |-> NoStore]
  /\ storeContext = [q \in Positions |-> EmptyObject]
  /\ resetDeps = [p \in Providers |-> NoResetDeps]
  /\ syncDeps =
       [p \in Providers |-> [key \in writableAtomsWithoutExtend |-> NoDeps]]
  /\ nextStore = 1
  /\ cells = [s \in Stores |-> InitialCells]
  /\ hydrated = [s \in Stores |-> {}]
  /\ renders = [s \in Stores |-> 0]
  /\ hydrationLog = [s \in Stores |-> [key \in DOMAIN initialState |-> <<>>]]
  /\ synced = [p \in Providers |-> {}]
  /\ last = NoCall

(***************************************************************************)
(* createAtomProvider                                                      *)
(***************************************************************************)
\* Mutant: the new Map is not a copy of the inherited one.
newStoreContext_notCopied(previousStoreContext, name, scope, store) ==
  LET scoped ==
        IF Truthy(scope)
          THEN MapSet(EmptyObject, getFullyQualifiedScope(name, scope.s),
                      store)
          ELSE EmptyObject
  IN MapSet(scoped, getFullyQualifiedScope(name, PROVIDER_SCOPE), store)

\* Mutant: the "provider" entry is set only when there is no scope.
newStoreContext_scopeOnly(previousStoreContext, name, scope, store) ==
  IF Truthy(scope)
    THEN MapSet(previousStoreContext,
                getFullyQualifiedScope(name, scope.s), store)
    ELSE MapSet(previousStoreContext,
                getFullyQualifiedScope(name, PROVIDER_SCOPE), store)

\* The callback of React.useMemo: the snapshot the Provider provides.
newStoreContext(previousStoreContext, name, scope, store) ==
  LET scoped ==
        IF Truthy(scope)
          THEN MapSet(previousStoreContext,
                      getFullyQualifiedScope(name, scope.s), store)
          ELSE previousStoreContext
  IN MapSet(scoped, getFullyQualifiedScope(name, PROVIDER_SCOPE), store)

\* Mutant: the entries are set on the inherited Map itself.
previousStoreContextAfter_inPlace(previousStoreContext, name, scope, store) ==
  newStoreContext(previousStoreContext, name, scope, store)

\* The inherited Map once the callback of useMemo has run: the entries
\* were set on the copy new Map(previousStoreContext), so it is as it was.
previousStoreContextAfter(previousStoreContext, name, scope, store) ==
  previousStoreContext

\* Mutant: the Provider is given every atom of the store, the atoms of
\* the extension too.
HydrateAtoms_allAtoms(p, store, cellsIn, hydratedIn) ==
  useHydrateStore(writableAtomsWithoutExtend \cup DOMAIN extend,
                  Spread(p.initialValues, p.fields),
                  store, cellsIn, hydratedIn)

\* Mutant: the spread is the wrong way round, the initialValues entry wins
\* over the prop.
HydrateAtoms_initialValuesWin(p, store, cellsIn, hydratedIn) ==
  useHydrateStore(writableAtomsWithoutExtend,
                  Spread(p.fields, p.initialValues),
                  store, cellsIn, hydratedIn)

\* The render of HydrateAtoms: useHydrateStore runs during the render.
HydrateAtoms(p, store, cellsIn, hydratedIn) ==
  useHydrateStore(writableAtomsWithoutExtend,
                  Spread(p.initialValues, p.fields),
                  store, cellsIn, hydratedIn)

\* The effect of the Provider, run when [resetKey] changed and on mount:
\* the argument of setStoreState, NoStore when it is not called.
resetEffect(deps, resetKey, fresh) ==
  IF deps # resetKey /\ Truthy(resetKey) THEN fresh ELSE NoStore

\* The snapshots after Provider p rendered with the snapshot own: the
\* consumers of the context below p render again in the same pass.
RECURSIVE Propagate(_, _, _)
Propagate(q, p, own) ==
  IF q = p THEN own
  ELSE IF ~Reachable(q) \/ q = Root THEN storeContext[q]
  ELSE newStoreContext(Propagate(parent[q], p, own), storeScope[q],
                       props[q].scope, storeState[q])

\* No commit is in progress anywhere else: passive effects are flushed and
\* queued state updates are rendered before another render starts.
Quiet(p) == \A q \in Providers \ {p} : phase[q] \in {"unmounted", "idle"}

\* The render number of this render for the instance store.
RenderNo(store) == IF renders[store] = 0 THEN 1 ELSE 2

\* An instance that setStoreState replaced is unreachable: no hook state,
\* no snapshot and no accessor leads to it any more.  What it held is
\* garbage and is dropped (instance numbers are never used again).
Retired(old, store) == {s \in Stores : s = old /\ old # store}

\* One render of HydrateAtoms on the instance store; old is the instance of
\* the previous render of this Provider.
RenderStore(newProps, store, old) ==
  LET h == HydrateAtoms(newProps, store, cells, hydrated)
      gone == Retired(old, store)
  IN /\ cells' =
          [s \in Stores |-> IF s \in gone THEN InitialCells ELSE h.cells[s]]
     /\ hydrated' =
          [s \in Stores |-> IF s \in gone THEN {} ELSE h.hydrated[s]]
     /\ hydrationLog' =
          [s \in Stores |->
             [key \in DOMAIN initialState |->
                IF s \in gone THEN <<>>
                ELSE IF s = store /\ key \in h.written
                          /\ Len(hydrationLog[s][key]) < 2
                  THEN Append(hydrationLog[s][key], RenderNo(store))
                  ELSE hydrationLog[s][key]]]
     /\ renders' =
          [s \in Stores |->
             IF s \in gone THEN 0
             ELSE IF s = store THEN RenderNo(store) ELSE renders[s]]

\* Whether the effect of a Provider with these props will create a store.
WillReset(deps, newProps) ==
  resetEffect(deps, newProps.resetKey, nextStore) # NoStore

\* The `store` prop of a Provider, NoStore when the prop is not passed.
StoreProp(givenProps) ==
  IF "store" \in DOMAIN givenProps THEN givenProps.store ELSE NoStore

\* The props of a Provider element as the Provider and then HydrateAtoms
\* take them apart: the Provider takes store, scope, children and resetKey,
\* HydrateAtoms takes initialValues, children, store and atoms, and what is
\* left are the values of the fields.
DestructureProps(elementProps) ==
  [scope |-> Prop(elementProps, "scope"),
   resetKey |-> Prop(elementProps, "resetKey"),
   initialValues |->
     IF "initialValues" \in DOMAIN elementProps
       THEN elementProps.initialValues ELSE EmptyObject,
   store |-> StoreProp(elementProps),
   fields |->
     [key \in DOMAIN elementProps \
               {"store", "scope", "children", "resetKey", "initialValues",
                "atoms"} |-> elementProps[key]]]

providerStore_propWins(givenProps, ownStore) ==
  IF StoreProp(givenProps) # NoStore THEN StoreProp(givenProps) ELSE ownStore

\* The instance that the Provider registers and hands to HydrateAtoms: the
\* Provider takes `store` out of its props and never reads it, and uses
\* its own storeState everywhere.
providerStore(givenProps, ownStore) == ownStore

\* First render of Provider p under position par, for the store name.
Mount(p, par, name, newProps) ==
  /\ phase[p] = "unmounted"
  /\ Quiet(p)
  /\ IF par = Root THEN TRUE ELSE (par < p /\ Mounted(par))
  /\ nextStore + (IF WillReset(NoResetDeps, newProps) THEN 1 ELSE 0)
       <= MaxStores
  /\ phase' = [phase EXCEPT ![p] = "rendered"]
  /\ parent' = [parent EXCEPT ![p] = par]
  /\ storeScope' = [storeScope EXCEPT ![p] = name]
  /\ props' = [props EXCEPT ![p] = newProps]
  /\ storeState' = [storeState EXCEPT ![p] = nextStore]
  /\ nextStore' = nextStore + 1
  /\ storeContext' =
       [storeContext EXCEPT
          ![p] = newStoreContext(storeContext[par], name, newProps.scope,
                                 providerStore(newProps, nextStore)),
          ![par] = previousStoreContextAfter(storeContext[par], name,
                                             newProps.scope, nextStore)]
  /\ RenderStore(newProps, providerStore(newProps, nextStore), nextStore)
  /\ synced' = [synced EXCEPT ![p] = {}]
  /\ last' = NoCall
  /\ UNCHANGED <<pendingStore, resetDeps, syncDeps>>

\* A later render of Provider p: new props from its parent, or the render
\* that a queued setStoreState asks for.
Render(p, newProps) ==
  /\ phase[p] \in {"idle", "dirty"}
  /\ Quiet(p)
  /\ WillReset(resetDeps[p], newProps) => nextStore <= MaxStores
  /\ LET store ==
           IF pendingStore[p] # NoStore THEN pendingStore[p] ELSE storeState[p]
         own == newStoreContext(storeContext[parent[p]], storeScope[p],
                                newProps.scope,
                                providerStore(newProps, store))
     IN /\ storeState' = [storeState EXCEPT ![p] = store]
        /\ storeContext' =
             [q \in Positions |->
                IF q = parent[p]
                  THEN previousStoreContextAfter(storeContext[q],
                                                 storeScope[p],
                                                 newProps.scope, store)
                  ELSE Propagate(q, p, own)]
        /\ RenderStore(newProps, providerStore(newProps, store),
                       storeState[p])
  /\ pendingStore' = [pendingStore EXCEPT ![p] = NoStore]
  /\ phase' = [phase EXCEPT ![p] = "rendered"]
  /\ props' = [props EXCEPT ![p] = newProps]
  /\ synced' = [synced EXCEPT ![p] = {}]
  /\ last' = NoCall
  /\ UNCHANGED <<parent, storeScope, resetDeps, syncDeps, nextStore>>

\* The passive effects of the commit of Provider p: the effects of
\* useSyncStore in HydrateAtoms first, then the effect of the Provider.
RunEffects(p) ==
  /\ phase[p] = "rendered"
  /\ LET sync == useSyncStore(writableAtomsWithoutExtend, props[p].fields,
                              providerStore(props[p], storeState[p]),
                              syncDeps[p], cells)
         fresh == resetEffect(resetDeps[p], props[p].resetKey, nextStore)
     IN /\ cells' = sync.cells
        /\ syncDeps' = [syncDeps EXCEPT ![p] = sync.deps]
        /\ synced' = [synced EXCEPT ![p] = sync.written]
        /\ pendingStore' = [pendingStore EXCEPT ![p] = fresh]
        /\ nextStore' = IF fresh # NoStore THEN nextStore + 1 ELSE nextStore
        /\ phase' =
             [phase EXCEPT ![p] = IF fresh # NoStore THEN "dirty" ELSE "idle"]
  /\ resetDeps' = [resetDeps EXCEPT ![p] = props[p].resetKey]
  /\ last' = NoCall
  /\ UNCHANGED <<parent, storeScope, props, storeState, storeContext,
                 hydrated, renders, hydrationLog>>

(***************************************************************************)
(* Consumers                                                               *)
(***************************************************************************)
\* A component at position pos calls useAtomStore(name, scope, warn).
CallUseAtomStore(pos, name, scope, warn) ==
  /\ Reachable(pos)
  /\ last = NoCall
  /\ last' = [op |-> "useAtomStore", pos |-> pos, name |-> name,
              scope |-> scope, warn |-> warn,
              result |-> useAtomStore(storeContext[pos], name, scope, warn)]
  /\ UNCHANGED <<phase, parent, storeScope, props, storeState, pendingStore,
                 storeContext, resetDeps, syncDeps, nextStore, cells,
                 hydrated, renders, hydrationLog, synced>>

\* A component at position pos calls an accessor of the bundle
\* use<Name>Store(defaultOptions) with the argument options.
Call(pos, name, accessor, defaultOptions, options) ==
  /\ Reachable(pos)
  /\ last = NoCall
  /\ last' = [op |-> "call", pos |-> pos, name |-> name,
              accessor |-> accessor, defaultOptions |-> defaultOptions,
              options |-> options,
              result |-> useStoreApi(name, storeContext[pos], accessor,
                                     defaultOptions, options)]
  /\ UNCHANGED <<phase, parent, storeScope, props, storeState, pendingStore,
                 storeContext, resetDeps, syncDeps, nextStore, cells,
                 hydrated, renders, hydrationLog, synced>>

\* The render of the component that made the call returns.
Return ==
  /\ last # NoCall
  /\ last' = NoCall
  /\ UNCHANGED <<phase, parent, storeScope, props, storeState, pendingStore,
                 storeContext, resetDeps, syncDeps, nextStore, cells,
                 hydrated, renders, hydrationLog, synced>>

\* A component at position pos reads field key with get.key().  A call that
\* resolves no instance reads the default store of jotai and is left out.
Get(pos, name, key) ==
  LET store == useStoreApi(name, storeContext[pos], "get", Undefined,
                           Undefined).store
  IN /\ Reachable(pos)
     /\ last = NoCall
     /\ store # NoStore
     /\ last' = [op |-> "get", pos |-> pos, key |-> key, store |-> store,
                 result |-> ReadField(cells, store, key)]
     /\ UNCHANGED <<phase, parent, storeScope, props, storeState,
                    pendingStore, storeContext, resetDeps, syncDeps,
                    nextStore, cells, hydrated, renders, hydrationLog,
                    synced>>

\* A component at position pos writes value through the setter it got from
\* set.key(options) or use.key(options).  A call that resolves no instance
\* is a caller error and is left out.
Set(pos, name, accessor, key, options, value) ==
  LET store == useStoreApi(name, storeContext[pos], accessor, Undefined,
                           options).store
  IN /\ Reachable(pos)
     /\ accessor \in {"set", "use"}
     /\ store # NoStore
     /\ cells' = StoreSet(cells, store, key, value)
     /\ last' = NoCall
     /\ UNCHANGED <<phase, parent, storeScope, props, storeState,
                    pendingStore, storeContext, resetDeps, syncDeps,
                    nextStore, hydrated, renders, hydrationLog, synced>>

(***************************************************************************)
(* Spec: the life of the Providers of one declared store and the bridge.   *)
(* Provider 1 receives initialValues, field props and a resetKey;          *)
(* Provider 2, a sibling or a descendant, is a second instance of the same *)
(* store.                                                                  *)
(***************************************************************************)
StoreName == "a"

ResetKeys == {Undefined, Num(1)}

InitialValuesSet ==
  {EmptyObject, [count |-> Num(1)], [count |-> Num(2)]}

FieldPropsSet ==
  {EmptyObject, [count |-> Null], [count |-> Num(1)], [count |-> Num(2)]}

PropsSet(p) ==
  IF p = 1
    THEN [scope : {Undefined}, resetKey : ResetKeys,
          initialValues : InitialValuesSet, fields : FieldPropsSet]
    ELSE {NoProps}

\* The values consumers write: count to a value no prop carries.
Written == [count |-> Num(3), fn |-> Fn("f1")]

Next ==
  \/ \E p \in Providers, par \in Positions :
       \E newProps \in PropsSet(p) : Mount(p, par, StoreName, newProps)
  \/ \E p \in Providers : \E newProps \in PropsSet(p) : Render(p, newProps)
  \/ \E p \in Providers : RunEffects(p)
  \/ \E pos \in Positions, accessor \in {"set", "use"},
        key \in DOMAIN Written :
       Set(pos, StoreName, accessor, key, Undefined, Written[key])

Spec == Init /\ [][Next]_vars

(***************************************************************************)
(* SpecWrites: the setters of the bundle over the instances of one         *)
(* declared store.  Provider 1 is hydrated from initialValues and reset by *)
(* its resetKey; consumers anywhere in the tree write count and fn.        *)
(***************************************************************************)
WriteProps ==
  [scope : {Undefined}, resetKey : ResetKeys,
   initialValues : {EmptyObject, [count |-> Num(1)]},
   fields : {EmptyObject}]

WritePropsSet(p) == IF p = 1 THEN WriteProps ELSE {NoProps}

NextWrites ==
  \/ \E p \in Providers, par \in Positions :
       \E newProps \in WritePropsSet(p) : Mount(p, par, StoreName, newProps)
  \/ \E p \in Providers :
       \E newProps \in WritePropsSet(p) : Render(p, newProps)
  \/ \E p \in Providers : RunEffects(p)
  \/ \E pos \in Positions, accessor \in {"set", "use"},
        key \in DOMAIN Written :
       Set(pos, StoreName, accessor, key, Undefined, Written[key])

SpecWrites == Init /\ [][NextWrites]_vars

(***************************************************************************)
(* SpecRegistry: Providers of two declared stores, with and without an     *)
(* explicit scope, reset by their resetKey, and consumers that call        *)
(* useAtomStore.                                                           *)
(***************************************************************************)
Names == {"a", "b"}

ScopeProps == {Undefined, Str("x")}

RegistryProps ==
  [scope : ScopeProps, resetKey : ResetKeys,
   initialValues : {EmptyObject}, fields : {EmptyObject}]

ScopeArgs == {Undefined, Str("x"), Str("y")}

NextRegistry ==
  \/ \E p \in Providers, par \in Positions, name \in Names,
        newProps \in RegistryProps : Mount(p, par, name, newProps)
  \/ \E p \in Providers, newProps \in RegistryProps : Render(p, newProps)
  \/ \E p \in Providers : RunEffects(p)
  \/ \E pos \in Positions, name \in Names, scope \in ScopeArgs,
        warn \in BOOLEAN : CallUseAtomStore(pos, name, scope, warn)
  \/ Return

SpecRegistry == Init /\ [][NextRegistry]_vars

(***************************************************************************)
(* SpecAlias: Providers of two declared stores whose names, and lookups    *)
(* whose scopes, contain the separator of the registry key.                *)
(***************************************************************************)
AliasNames == {"a", "a:b"}

AliasProps ==
  [scope : {Undefined, Str("x")}, resetKey : {Undefined},
   initialValues : {EmptyObject}, fields : {EmptyObject}]

AliasScopeArgs == {Undefined, Str("x"), Str("b:provider")}

NextAlias ==
  \/ \E p \in Providers, par \in Positions, name \in AliasNames,
        newProps \in AliasProps : Mount(p, par, name, newProps)
  \/ \E p \in Providers, newProps \in AliasProps : Render(p, newProps)
  \/ \E p \in Providers : RunEffects(p)
  \/ \E pos \in Positions, name \in AliasNames, scope \in AliasScopeArgs,
        warn \in BOOLEAN : CallUseAtomStore(pos, name, scope, warn)
  \/ Return

SpecAlias == Init /\ [][NextAlias]_vars

(***************************************************************************)
(* SpecStoreProp: Provider elements that are passed a `store` prop, an     *)
(* instance their caller made, next to a reset key, initial values and a   *)
(* value for count; consumers write and read count.                        *)
(***************************************************************************)
\* An instance the caller made with createStore() and passes in options or
\* as the `store` prop of a Provider.
ExternalStore == MaxStores + 2

ElementProps ==
  {Spread(Spread(Spread(storeProp, resetProp), initialProp), fieldProp) :
     storeProp \in {EmptyObject, [store |-> ExternalStore]},
     resetProp \in {EmptyObject, [resetKey |-> Num(1)]},
     initialProp \in {EmptyObject, [initialValues |-> [count |-> Num(1)]]},
     fieldProp \in {EmptyObject, [count |-> Num(2)]}}

ElementPropsSet(p) ==
  IF p = 1 THEN ElementProps ELSE {EmptyObject, [store |-> ExternalStore]}

NextStoreProp ==
  \/ \E p \in Providers, par \in Positions :
       \E elementProps \in ElementPropsSet(p) :
         Mount(p, par, StoreName, DestructureProps(elementProps))
  \/ \E p \in Providers :
       \E elementProps \in ElementPropsSet(p) :
         Render(p, DestructureProps(elementProps))
  \/ \E p \in Providers : RunEffects(p)
  \/ \E pos \in Positions, accessor \in {"set", "use"} :
       Set(pos, StoreName, accessor, "count", Undefined, Written.count)
  \/ \E pos \in Positions : Get(pos, StoreName, "count")
  \/ Return

SpecStoreProp == Init /\ [][NextStoreProp]_vars

(***************************************************************************)
(* SpecAccessors: the accessors of the bundle of store "a", called with    *)
(* default options and per-call options under the snapshots that Providers *)
(* of the two stores build.                                                *)
(***************************************************************************)
AccessorProps ==
  [scope : ScopeProps, resetKey : {Undefined},
   initialValues : {EmptyObject}, fields : {EmptyObject}]

DefaultOptionsSet ==
  {Undefined, Str("x"), [scope |-> Str("x")], [store |-> ExternalStore]}

OptionsSet ==
  {Undefined, Str("x"), Str("y"), [scope |-> Str("x")], [scope |-> Str("y")],
   [scope |-> Undefined], [store |-> ExternalStore],
   [warnIfNoStore |-> FALSE], [warnIfNoStore |-> TRUE]}

NextAccessors ==
  \/ \E p \in Providers, par \in Positions, name \in Names,
        newProps \in AccessorProps : Mount(p, par, name, newProps)
  \/ \E p \in Providers : RunEffects(p)
  \/ \E pos \in Positions, accessor \in Accessors,
        defaultOptions \in DefaultOptionsSet, options \in OptionsSet :
       Call(pos, StoreName, accessor, defaultOptions, options)
  \/ Return

SpecAccessors == Init /\ [][NextAccessors]_vars

(***************************************************************************)
(* SpecExtend: Provider 1 is handed values under the key double of the     *)
(* extension, in initialValues and as a prop, next to values of the base   *)
(* field count; consumers write count and read double.                     *)
(***************************************************************************)
ExtendProps ==
  [scope : {Undefined}, resetKey : ResetKeys,
   initialValues :
     {EmptyObject, [double |-> Num(9)], [count |-> Num(1), double |-> Num(9)]},
   fields : {EmptyObject, [double |-> Num(8)], [count |-> Num(2)]}]

ExtendPropsSet(p) == IF p = 1 THEN ExtendProps ELSE {NoProps}

NextExtend ==
  \/ \E p \in Providers, par \in Positions :
       \E newProps \in ExtendPropsSet(p) : Mount(p, par, StoreName, newProps)
  \/ \E p \in Providers :
       \E newProps \in ExtendPropsSet(p) : Render(p, newProps)
  \/ \E p \in Providers : RunEffects(p)
  \/ \E pos \in Positions, accessor \in {"set", "use"} :
       Set(pos, StoreName, accessor, "count", Undefined, Written.count)
  \/ \E pos \in Positions : Get(pos, StoreName, "double")
  \/ Return

SpecExtend == Init /\ [][NextExtend]_vars

(***************************************************************************)
(* SpecValues: values of every kind written into the field fn, by          *)
(* hydration, by sync and by the setters.                                  *)
(***************************************************************************)
FnProps ==
  {EmptyObject, [fn |-> Fn("f2")],
   [fn |-> [t |-> "object", keys |-> {"__fn"}, fn |-> Num(1)]]}

ValueProps ==
  [scope : {Undefined}, resetKey : {Undefined},
   initialValues : {EmptyObject, [fn |-> Fn("f2")]}, fields : FnProps]

ValuePropsSet(p) == IF p = 1 THEN ValueProps ELSE {NoProps}

WrittenValues ==
  {Num(3), Null, Fn("f1"),
   [t |-> "object", keys |-> {"a"}, a |-> Num(1)],
   [t |-> "object", keys |-> {"__fn"}, fn |-> Num(1)]}

NextValues ==
  \/ \E p \in Providers, par \in Positions :
       \E newProps \in ValuePropsSet(p) : Mount(p, par, StoreName, newProps)
  \/ \E p \in Providers :
       \E newProps \in ValuePropsSet(p) : Render(p, newProps)
  \/ \E p \in Providers : RunEffects(p)
  \/ \E pos \in Positions, accessor \in {"set", "use"},
        value \in WrittenValues :
       Set(pos, StoreName, accessor, "fn", Undefined, value)

SpecValues == Init /\ [][NextValues]_vars

(***************************************************************************)
(* SpecDeclare: createAtomStore over declarations whose base fields are    *)
(* raw values, read-only atoms or writable atoms, and whose extension      *)
(* adds read-only or writable atoms, also under the key of a base field;   *)
(* then calls of use<Name>Store.                                           *)
(***************************************************************************)
BaseKeys == {"count", "atom"}

ExtendKeys == {"count", "double"}

BaseKinds == {"absent", "value", "readonly", "writable"}

ExtendKinds == {"absent", "readonly", "writable"}

StateOf(kinds) ==
  [key \in {k \in DOMAIN kinds : kinds[k] # "absent"} |->
     IF kinds[key] = "value" THEN Num(0)
     ELSE Atom("state", key, kinds[key] = "writable")]

ExtendedOf(kinds) ==
  [key \in {k \in DOMAIN kinds : kinds[k] # "absent"} |->
     Atom("extend", key, kinds[key] = "writable")]

Declarations ==
  {[state |-> StateOf(b), extend |-> ExtendedOf(e)] :
     b \in [BaseKeys -> BaseKinds], e \in [ExtendKeys -> ExtendKinds]}

NoBundle == [get |-> <<>>, set |-> <<>>, use |-> <<>>]

InitDeclare ==
  /\ phase = [p \in Providers |-> "unmounted"]
  /\ parent = [p \in Providers |-> Root]
  /\ storeScope = [p \in Providers |-> ""]
  /\ props = [p \in Providers |-> NoProps]
  /\ storeState = [p \in Providers |-> NoStore]
  /\ pendingStore = [p \in Providers |-> NoStore]
  /\ storeContext = [q \in Positions |-> EmptyObject]
  /\ resetDeps = [p \in Providers |-> NoResetDeps]
  /\ syncDeps =
       [p \in Providers |-> [key \in writableAtomsWithoutExtend |-> NoDeps]]
  /\ nextStore = 1
  /\ cells = [s \in Stores |-> InitialCells]
  /\ hydrated = [s \in Stores |-> {}]
  /\ renders = [s \in Stores |-> 0]
  /\ hydrationLog = [s \in Stores |-> [key \in DOMAIN initialState |-> <<>>]]
  /\ synced = [p \in Providers |-> {}]
  /\ \E d \in Declarations : last = [op |-> "declaration", declared |-> d]

CreateAtomStore ==
  /\ last.op = "declaration"
  /\ last' = [op |-> "createAtomStore", declared |-> last.declared,
              api |-> createAtomStore(last.declared.state,
                                      last.declared.extend),
              calls |-> 0, bundle |-> NoBundle, previous |-> NoBundle]
  /\ UNCHANGED <<phase, parent, storeScope, props, storeState, pendingStore,
                 storeContext, resetDeps, syncDeps, nextStore, cells,
                 hydrated, renders, hydrationLog, synced>>

\* A component calls use<Name>Store(): the first call, and a later one.
UseStoreApi ==
  /\ last.op = "createAtomStore"
  /\ last.calls < 2
  /\ last' = [last EXCEPT !.calls = @ + 1,
                          !.bundle = StoreApiBundle(last.api),
                          !.previous = last.bundle]
  /\ UNCHANGED <<phase, parent, storeScope, props, storeState, pendingStore,
                 storeContext, resetDeps, syncDeps, nextStore, cells,
                 hydrated, renders, hydrationLog, synced>>

NextDeclare == CreateAtomStore \/ UseStoreApi

SpecDeclare == InitDeclare /\ [][NextDeclare]_vars

(***************************************************************************)
(* SpecCodec: wrapFn and unwrapFn applied to a value.  An object literal   *)
(* is a record of its own keys and their values, the value of the key      *)
(* "__fn" being held in the field fn as in the object wrapFn makes.        *)
(***************************************************************************)
PropertyValues == {Undefined, Num(1), Str("a"), Fn("f1")}

PlainObjects ==
  {[t |-> "object", keys |-> {}]}
    \cup {[t |-> "object", keys |-> {"a"}, a |-> v] : v \in PropertyValues}
    \cup {[t |-> "object", keys |-> {"__fn"}, fn |-> v] : v \in PropertyValues}
    \cup {[t |-> "object", keys |-> {"a", "__fn"}, a |-> v, fn |-> w] :
            v \in PropertyValues, w \in PropertyValues}

Values ==
  {Undefined, Null, Num(0), Num(1), Str(""), Str("a"), Bool(FALSE),
   Bool(TRUE), Fn("f0"), Fn("f1"), Fn("f2")}
    \cup PlainObjects

InitCodec ==
  /\ phase = [p \in Providers |-> "unmounted"]
  /\ parent = [p \in Providers |-> Root]
  /\ storeScope = [p \in Providers |-> ""]
  /\ props = [p \in Providers |-> NoProps]
  /\ storeState = [p \in Providers |-> NoStore]
  /\ pendingStore = [p \in Providers |-> NoStore]
  /\ storeContext = [q \in Positions |-> EmptyObject]
  /\ resetDeps = [p \in Providers |-> NoResetDeps]
  /\ syncDeps =
       [p \in Providers |-> [key \in writableAtomsWithoutExtend |-> NoDeps]]
  /\ nextStore = 1
  /\ cells = [s \in Stores |-> InitialCells]
  /\ hydrated = [s \in Stores |-> {}]
  /\ renders = [s \in Stores |-> 0]
  /\ hydrationLog = [s \in Stores |-> [key \in DOMAIN initialState |-> <<>>]]
  /\ synced = [p \in Providers |-> {}]
  /\ \E v \in Values : last = [op |-> "value", value |-> v]

WrapFn ==
  /\ last.op = "value"
  /\ last' = [op |-> "wrapFn", value |-> last.value,
              result |-> wrapFn(last.value)]
  /\ UNCHANGED <<phase, parent, storeScope, props, storeState, pendingStore,
                 storeContext, resetDeps, syncDeps, nextStore, cells,
                 hydrated, renders, hydrationLog, synced>>

UnwrapFn ==
  /\ last.op = "wrapFn"
  /\ last' = [op |-> "unwrapFn", value |-> last.value,
              wrapped |-> last.result, result |-> unwrapFn(last.result)]
  /\ UNCHANGED <<phase, parent, storeScope, props, storeState, pendingStore,
                 storeContext, resetDeps, syncDeps, nextStore, cells,
                 hydrated, renders, hydrationLog, synced>>

NextCodec == WrapFn \/ UnwrapFn

SpecCodec == InitCodec /\ [][NextCodec]_vars

(***************************************************************************)
(* Properties of the registry (SpecRegistry)                               *)
(***************************************************************************)
\* The resolution the specification describes, over pairs (name, scope):
\* the entry of (name, scope), else the entry of (name, "provider"), else
\* undefined.
Key(name, scope) == name \o ":" \o scope

Resolve(snapshot, name, scope) ==
  IF Key(name, scope) \in DOMAIN snapshot THEN snapshot[Key(name, scope)]
  ELSE IF Key(name, "provider") \in DOMAIN snapshot
    THEN snapshot[Key(name, "provider")]
    ELSE NoStore

ScopeOrWildcard(scope) == IF scope = Undefined THEN "provider" ELSE scope.s

\* The instance of the nearest Provider of the store name at or above a
\* position of the tree, found by walking the tree.
RECURSIVE NearestStore(_, _)
NearestStore(pos, name) ==
  IF pos = Root THEN NoStore
  ELSE IF storeScope[pos] = name THEN storeState[pos]
  ELSE NearestStore(parent[pos], name)

\* C1: useAtomStore(storeName, scope) returns the entry of (storeName, scope)
\* when the snapshot has it, else the entry of (storeName, "provider") when
\* the snapshot has it, else undefined; it reads no other key of the
\* snapshot.
C1_TwoLevelResolution ==
  last.op = "useAtomStore" =>
    LET snapshot == storeContext[last.pos]
        scope == ScopeOrWildcard(last.scope)
    IN /\ last.result.store = Resolve(snapshot, last.name, scope)
       /\ last.result.consulted \subseteq
            {Key(last.name, scope), Key(last.name, "provider")}

\* A lookup of a scope nobody registered fell back to the wildcard entry,
\* in a snapshot that also has an entry of the same store under "x".
C1_Witness ==
  /\ last.op = "useAtomStore"
  /\ last.scope = Str("y")
  /\ Key(last.name, "x") \in DOMAIN storeContext[last.pos]
  /\ Key(last.name, "provider") \in DOMAIN storeContext[last.pos]
  /\ storeContext[last.pos][Key(last.name, "x")]
       # storeContext[last.pos][Key(last.name, "provider")]
  /\ last.result.store = storeContext[last.pos][Key(last.name, "provider")]

\* The keys a Provider sets in the snapshot it provides.
OwnKeys(p) ==
  {Key(storeScope[p], "provider")}
    \cup (IF Truthy(props[p].scope)
            THEN {Key(storeScope[p], props[p].scope.s)} ELSE {})

\* C2: the snapshot a Provider provides agrees with the snapshot it
\* inherited on every key the Provider does not set itself, and a lookup
\* from below for such a key returns the ancestor's instance.
C2_ShadowOnlyOwnKeys ==
  \A p \in Providers :
    Mounted(p) =>
      LET inherited == storeContext[parent[p]]
          provided == storeContext[p]
      IN /\ \A key \in (DOMAIN inherited) \ OwnKeys(p) :
              key \in DOMAIN provided /\ provided[key] = inherited[key]
         /\ \A name \in Names, scope \in {"x", "y", "provider"} :
              (/\ Key(name, scope) \in DOMAIN inherited
               /\ Key(name, scope) \notin OwnKeys(p))
                => useAtomStore(provided, name, Str(scope), FALSE).store
                     = inherited[Key(name, scope)]

\* Provider 2, without a scope, is nested in Provider 1 of the same store,
\* which has the scope "x": the entry under "x" is still the ancestor's.
C2_Witness ==
  /\ Mounted(2) /\ parent[2] = 1
  /\ storeScope[1] = storeScope[2]
  /\ props[1].scope = Str("x") /\ props[2].scope = Undefined
  /\ storeContext[2][Key(storeScope[1], "x")] = storeState[1]
  /\ storeContext[2][Key(storeScope[2], "provider")] = storeState[2]
  /\ storeState[1] # storeState[2]

\* C3: a Provider of the store N registers its current instance under
\* (N, "provider"), and under (N, scope) as well when it has a scope; with
\* no scope it sets the wildcard key only.  A lookup with no scope resolves
\* the nearest enclosing Provider of the name.
C3_WildcardAlwaysRegistered ==
  /\ \A p \in Providers :
       Mounted(p) =>
         LET provided == storeContext[p]
             inherited == storeContext[parent[p]]
             changed ==
               {key \in DOMAIN provided :
                  key \notin DOMAIN inherited
                    \/ inherited[key] # provided[key]}
         IN /\ Key(storeScope[p], "provider") \in DOMAIN provided
            /\ provided[Key(storeScope[p], "provider")] = storeState[p]
            /\ props[p].scope # Undefined =>
                 /\ Key(storeScope[p], props[p].scope.s) \in DOMAIN provided
                 /\ provided[Key(storeScope[p], props[p].scope.s)]
                      = storeState[p]
            /\ props[p].scope = Undefined =>
                 changed \subseteq {Key(storeScope[p], "provider")}
  /\ (last.op = "useAtomStore" /\ last.scope = Undefined) =>
       last.result.store = NearestStore(last.pos, last.name)

\* A lookup with no scope from below two nested Providers of the same
\* store, the inner one with an explicit scope, resolved the inner one.
C3_Witness ==
  /\ last.op = "useAtomStore" /\ last.scope = Undefined /\ last.pos = 2
  /\ parent[2] = 1
  /\ storeScope[1] = last.name /\ storeScope[2] = last.name
  /\ props[2].scope = Str("x")
  /\ last.result.store = storeState[2]
  /\ storeState[1] # storeState[2]

(***************************************************************************)
(* Properties of the accessor surface (SpecAccessors)                      *)
(***************************************************************************)
IsString(x) == "t" \in DOMAIN x /\ x.t = "string"

IsOptions(x) == "t" \notin DOMAIN x

\* The value an options-or-scope argument gives to an option, none when it
\* does not give one.
Given(x, key, none) ==
  IF IsString(x) THEN (IF key = "scope" THEN x ELSE none)
  ELSE IF IsOptions(x) /\ key \in DOMAIN x THEN x[key]
  ELSE none

\* The instance the specification expects for a scope and a passed store.
Expected(snapshot, name, scope, store) ==
  IF store # NoStore THEN store
  ELSE Resolve(snapshot, name, ScopeOrWildcard(scope))

\* C4: useStore(optionsOrScope) returns options.store whenever a store is
\* passed, whatever the registry holds; otherwise the resolution of
\* (N, scope), the scope being "provider" when none is given.
C4_ExplicitStoreWins ==
  (last.op = "call" /\ last.accessor = "store"
     /\ last.defaultOptions = Undefined) =>
    last.result.store =
      Expected(storeContext[last.pos], last.name,
               Given(last.options, "scope", Undefined),
               Given(last.options, "store", NoStore))

\* store({store: external}) was called below a Provider of the store and
\* returned the external instance.
C4_Witness ==
  /\ last.op = "call" /\ last.accessor = "store"
  /\ last.defaultOptions = Undefined
  /\ last.options = [store |-> ExternalStore]
  /\ Resolve(storeContext[last.pos], last.name, "provider") # NoStore
  /\ last.result.store = ExternalStore

\* C5: called with a scope string s, the accessors get.k, set.k and use.k
\* resolve the same instance as with {scope: s}, and the same instance as
\* store(s) and get.atom(cell, s).
C5_ScopeShorthandEquivalence ==
  (last.op = "call" /\ last.accessor \in {"get", "set", "use"}
     /\ IsString(last.options)) =>
    LET snapshot == storeContext[last.pos]
        resolved(accessor, options) ==
          useStoreApi(last.name, snapshot, accessor, last.defaultOptions,
                      options).store
    IN /\ last.result.store
            = resolved(last.accessor, [scope |-> last.options])
       /\ last.result.store = resolved("store", last.options)
       /\ last.result.store = resolved("get.atom", last.options)

\* C6: with default options d and a per-call options object o, every
\* accessor resolves with d overridden key by key by o: a scope or store of
\* o wins, a key absent from o keeps the value d gives it.
C6_PerCallOverridesDefaults ==
  (last.op = "call" /\ ~IsString(last.options)) =>
    LET d == last.defaultOptions
        o == last.options
        scope == IF IsOptions(o) /\ "scope" \in DOMAIN o
                   THEN o.scope ELSE Given(d, "scope", Undefined)
        store == IF IsOptions(o) /\ "store" \in DOMAIN o
                   THEN o.store ELSE Given(d, "store", NoStore)
    IN last.result.store
         = Expected(storeContext[last.pos], last.name, scope, store)

\* get.k({scope: "y"}) of a bundle with the default {scope: "x"}: the call
\* resolved what "y" resolves, which is not what "x" resolves.
C6_Witness ==
  /\ last.op = "call" /\ last.accessor = "get"
  /\ last.defaultOptions = [scope |-> Str("x")]
  /\ last.options = [scope |-> Str("y")]
  /\ Resolve(storeContext[last.pos], last.name, "x")
       # Resolve(storeContext[last.pos], last.name, "y")
  /\ last.result.store = Resolve(storeContext[last.pos], last.name, "y")

(***************************************************************************)
(* Properties of the cells (SpecWrites) and of the bridge (Spec)            *)
(***************************************************************************)
\* C7: a write through the setter of set.k or use.k changes the cell of
\* field k in the resolved instance only; every other field of that
\* instance and every field of every other instance keeps its value.
C7_WriteFrame ==
  [][\A pos \in Positions, accessor \in {"set", "use"},
        key \in DOMAIN Written :
       Set(pos, StoreName, accessor, key, Undefined, Written[key]) =>
         LET S == NearestStore(pos, StoreName)
         IN /\ AtomRead(cells'[S][key]) = Written[key]
            /\ \A s \in Stores, k \in DOMAIN initialState :
                 (s # S \/ k # key) => cells'[s][k] = cells[s][k]]_vars

\* A consumer below Provider 2, nested in Provider 1 of the same store,
\* wrote count: the instance of Provider 1 still holds the hydrated count,
\* and fn of the instance of Provider 2 is untouched.
C7_Witness ==
  /\ Mounted(2) /\ parent[2] = 1
  /\ cells[storeState[2]].count = Num(3)
  /\ cells[storeState[2]].fn = InitialCells.fn
  /\ cells[storeState[1]].count = Num(1)
  /\ hydrationLog[storeState[1]].count = <<1>>

\* C8: within one instance the cell of a field is written by hydration at
\* most once, whatever initialValues and props later renders bring.
C8_HydratedAtMostOnce ==
  \A s \in Stores, key \in DOMAIN initialState :
    Len(hydrationLog[s][key]) <= 1

\* count was hydrated with 1 on the first render; a later render has the
\* initialValues entry 2 and the cell still holds 1.
C8_Witness ==
  /\ phase[1] = "rendered"
  /\ renders[storeState[1]] = 2
  /\ hydrationLog[storeState[1]].count = <<1>>
  /\ props[1].initialValues = [count |-> Num(2)]
  /\ props[1].fields = EmptyObject
  /\ cells[storeState[1]].count = Num(1)

\* C9: every hydration write into an instance happens on the first render
\* that uses the instance, never on a later one.
C9_HydrationOnlyOnFirstRender ==
  \A s \in Stores, key \in DOMAIN initialState :
    \A i \in DOMAIN hydrationLog[s][key] : hydrationLog[s][key][i] = 1

\* C10: when the prop of a writable field changed between two commits to a
\* value that is neither undefined nor null, the cell of the field in the
\* Provider's instance holds that value once the effects of the commit
\* have run.
C10_SyncOnEveryChange ==
  [][\A p \in Providers :
       RunEffects(p) =>
         \A key \in writableAtomsWithoutExtend :
           LET value == Prop(props[p].fields, key)
               before == syncDeps[p][key]
           IN (/\ before # NoDeps
               /\ before[2] # value
               /\ value # Undefined
               /\ value # Null)
                => AtomRead(cells'[storeState'[p]][key]) = value]_vars

\* On a later commit of an instance that was hydrated on its first render,
\* the sync effect wrote the changed prop over the count a consumer had set.
C10_Witness ==
  /\ phase[1] = "idle"
  /\ "count" \in synced[1]
  /\ renders[storeState[1]] = 2
  /\ hydrationLog[storeState[1]].count = <<1>>
  /\ props[1].fields = [count |-> Num(2)]
  /\ cells[storeState[1]].count = Num(2)
  /\ cells[storeState[1]].fn = AtomWrite(Written.fn)

C12_ResetOnEveryChange ==
  [][\A p \in Providers :
       (/\ RunEffects(p)
        /\ resetDeps[p] # NoResetDeps
        /\ resetDeps[p] # props[p].resetKey) =>
         /\ pendingStore'[p] # NoStore
         /\ pendingStore'[p] # storeState[p]]_vars

\* The value the specification gives a base field of an instance seeded
\* from the props p: the prop, else the initialValues entry, else the
\* declared initial value.
Seeded(p, key) ==
  IF key \in writableAtomsWithoutExtend /\ Prop(p.fields, key) # Undefined
    THEN p.fields[key]
  ELSE IF key \in writableAtomsWithoutExtend
            /\ Prop(p.initialValues, key) # Undefined
    THEN p.initialValues[key]
    ELSE initialState[key]

\* C13: when a mounted Provider renders with another store instance than
\* before (the reset takes effect), every base field read through the new
\* instance has the value seeded from the props of that render, or its
\* declared initial value: nothing written before the reset is visible.
C13_ResetReseeds ==
  [][\A p \in Providers :
       (Mounted(p) /\ storeState'[p] # storeState[p]) =>
         \A key \in DOMAIN initialState :
           AtomRead(cells'[storeState'[p]][key]) = Seeded(props'[p], key)]_vars

\* Provider 1 was reset and rendered with its second instance: count has
\* the initialValues entry of that render and fn its declared value.
C13_Witness ==
  /\ phase[1] = "rendered" /\ ~Mounted(2)
  /\ storeState[1] = 2 /\ renders[2] = 1
  /\ resetDeps[1] = Num(1)
  /\ props[1].initialValues = [count |-> Num(2)]
  /\ props[1].fields = EmptyObject
  /\ AtomRead(cells[2].count) = Num(2)
  /\ AtomRead(cells[2].fn) = initialState.fn

(***************************************************************************)
(* Properties of the codec (SpecCodec)                                     *)
(***************************************************************************)
\* C14: unwrapFn(wrapFn(v)) is v for every value v, and for a function f
\* wrapFn(f) is an object, not f itself.
C14_WrapUnwrapRoundTrip ==
  last.op = "unwrapFn" =>
    /\ last.result = last.value
    /\ last.value.t = "function" =>
         (last.wrapped.t = "object" /\ last.wrapped # last.value)

\* C15: a read of a field made by atomWithFn returns the value of the last
\* write, whatever the value: after a setter wrote it, after the sync
\* effect wrote it and after hydration wrote it.
C15_ReadReturnsLastWrite ==
  [][/\ \A pos \in Positions, accessor \in {"set", "use"},
          value \in WrittenValues :
         Set(pos, StoreName, accessor, "fn", Undefined, value) =>
           AtomRead(cells'[NearestStore(pos, StoreName)].fn) = value
     /\ \A p \in Providers :
         RunEffects(p) =>
           \A key \in synced'[p] :
             AtomRead(cells'[storeState[p]][key]) = props[p].fields[key]
     /\ \A p \in Providers, key \in writableAtomsWithoutExtend :
         (/\ renders' # renders
          /\ props'[p] # NoProps
          /\ Len(hydrationLog'[storeState'[p]][key])
               > Len(hydrationLog[storeState'[p]][key])) =>
           AtomRead(cells'[storeState'[p]][key])
             = Spread(props'[p].initialValues, props'[p].fields)[key]]_vars

(***************************************************************************)
(* Properties of an unregistered store (SpecAccessors)                     *)
(***************************************************************************)
\* Whether the diagnostic is enabled for a call: warnIfNoStore of the
\* per-call options, else of the defaults, else off for the reading
\* accessors and on for the others.
WarnEnabled(accessor, defaultOptions, options) ==
  Given(options, "warnIfNoStore",
        Given(defaultOptions, "warnIfNoStore",
              accessor \notin {"get", "get.atom"}))

\* C16: a call that resolves a store name with no entry under the requested
\* scope nor under "provider" returns undefined (the passed store when one
\* is passed), warns exactly when the diagnostic is enabled for the call
\* and no store is passed, and leaves the snapshots as they were.
C16_UnregisteredResolvesUndefined ==
  [][(last = NoCall /\ last'.op = "call") =>
       LET snapshot == storeContext[last'.pos]
           scope == Given(last'.options, "scope",
                          Given(last'.defaultOptions, "scope", Undefined))
           store == Given(last'.options, "store",
                          Given(last'.defaultOptions, "store", NoStore))
           warn == WarnEnabled(last'.accessor, last'.defaultOptions,
                               last'.options)
       IN /\ storeContext' = storeContext
          /\ Resolve(snapshot, last'.name, ScopeOrWildcard(scope)) = NoStore =>
               /\ last'.result.store = store
               /\ last'.result.warned = (warn /\ store = NoStore)]_vars

\* store() was called below a Provider of another store only: it returned
\* undefined and warned.
C16_Witness ==
  /\ last.op = "call" /\ last.accessor = "store"
  /\ last.options = Undefined /\ last.defaultOptions = Undefined
  /\ last.pos # Root
  /\ Key("b", "provider") \in DOMAIN storeContext[last.pos]
  /\ Key(last.name, "provider") \notin DOMAIN storeContext[last.pos]
  /\ last.result.store = NoStore
  /\ last.result.warned

(***************************************************************************)
(* Properties of the accessor families (SpecDeclare)                       *)
(***************************************************************************)
\* The fields of a declaration and whether the cell finally bound to a
\* field can be written: the cell of the extension when the extension has
\* the key, else the base cell, which is writable when it was made from a
\* raw value.
FinalFields(d) == (DOMAIN d.state) \cup (DOMAIN d.extend)

FinalWritable(d, key) ==
  IF key \in DOMAIN d.extend THEN d.extend[key].write
  ELSE IF isAtom(d.state[key]) THEN d.state[key].write
  ELSE TRUE

\* A family has the accessor of field key under the key.
HasEntry(bundle, family, key) ==
  /\ key \in DOMAIN bundle[family]
  /\ bundle[family][key].kind = "field"
  /\ bundle[family][key].family = family
  /\ bundle[family][key].key = key

FamiliesMatch(bundle, d, fields) ==
  \A key \in fields :
    /\ HasEntry(bundle, "get", key)
    /\ HasEntry(bundle, "set", key) <=> FinalWritable(d, key)
    /\ HasEntry(bundle, "use", key) <=> FinalWritable(d, key)

\* C17 as stated: in every bundle, get has the accessor of every field of
\* the final field set, and set and use have the accessor of a field
\* exactly when the cell finally bound to it is writable.
C17_FamiliesFollowWritability ==
  (last.op = "createAtomStore" /\ last.calls > 0) =>
    FamiliesMatch(last.bundle, last.declared, FinalFields(last.declared))

\* For every field that is not named "atom" the families do follow the
\* writability, and two calls of use<Name>Store return bundles with the
\* same entries.
FamiliesFollowWritabilityExceptAtom ==
  (last.op = "createAtomStore" /\ last.calls > 0) =>
    /\ FamiliesMatch(last.bundle, last.declared,
                     FinalFields(last.declared) \ {"atom"})
    /\ last.calls > 1 => last.bundle = last.previous

(***************************************************************************)
(* Properties of the extension (SpecExtend)                                *)
(***************************************************************************)
\* The props hand the Provider no value of a base field.
OnlyExtensionKeys(p) ==
  /\ (DOMAIN p.initialValues) \cap (DOMAIN initialState) = {}
  /\ (DOMAIN p.fields) \cap (DOMAIN initialState) = {}

\* C18: a value handed to the Provider under a key of the extension only,
\* as a prop or in initialValues, causes no write: the key is never
\* hydrated and never synced, and a render or a commit whose props carry
\* such keys only leaves the cells of the Provider's instance as they were
\* (as declared, for an instance used for the first time); a read of the
\* derived field double is computed from the current value of count.
C18_ExtensionKeysNeverWritten ==
  [][/\ \A s \in Stores : hydrated'[s] \cap (DOMAIN extend) = {}
     /\ \A p \in Providers : synced'[p] \cap (DOMAIN extend) = {}
     /\ \A p \in Providers :
         (/\ renders' # renders
          /\ storeState'[p] # NoStore
          /\ props'[p] # NoProps
          /\ OnlyExtensionKeys(props'[p])) =>
           cells'[storeState'[p]] =
             IF storeState'[p] = storeState[p]
               THEN cells[storeState[p]] ELSE InitialCells
     /\ \A p \in Providers :
         (RunEffects(p) /\ OnlyExtensionKeys(props[p])) =>
           (cells' = cells /\ synced'[p] = {})
     /\ (last = NoCall /\ last'.op = "get") =>
         last'.result = Twice(AtomRead(cells'[last'.store].count))]_vars

\* Provider 1 has double in initialValues and as a prop, its effects have
\* run, a consumer set count to 3 and read double: the read gives 6 and
\* nothing was hydrated or synced.
C18_Witness ==
  /\ last.op = "get" /\ last.key = "double" /\ last.store = storeState[1]
  /\ phase[1] = "idle"
  /\ props[1].initialValues = [double |-> Num(9)]
  /\ props[1].fields = [double |-> Num(8)]
  /\ hydrated[storeState[1]] = {}
  /\ AtomRead(cells[storeState[1]].count) = Num(3)
  /\ last.result = Num(6)

(***************************************************************************)
(* Properties of the inherited snapshot (SpecRegistry)                     *)
(***************************************************************************)
\* Provider p is position q or above it in the tree of the next state.
RECURSIVE AtOrAbove(_, _)
AtOrAbove(p, q) ==
  IF q = p THEN TRUE
  ELSE IF q = Root THEN FALSE
  ELSE AtOrAbove(p, parent'[q])

\* The instances a snapshot leads to.
InstancesOf(snapshot) == {snapshot[key] : key \in DOMAIN snapshot}

\* C19: the snapshot a position provides changes only when a Provider at
\* or above the position renders; the default Map of the root stays empty;
\* and the snapshot of a position leads to instances of Providers at or
\* above it only, so that a lookup from outside the subtree of a Provider
\* never returns its instance.
C19_InheritedSnapshotNotMutated ==
  [][/\ storeContext'[Root] = EmptyObject
     /\ \A q \in Positions :
         storeContext'[q] # storeContext[q] =>
           \E p \in Providers :
             /\ phase[p] # "rendered" /\ phase'[p] = "rendered"
             /\ AtOrAbove(p, q)
     /\ \A q \in Positions, p \in Providers :
         (phase'[p] # "unmounted"
            /\ storeState'[p] \in InstancesOf(storeContext'[q])) =>
           AtOrAbove(p, q)
     /\ (last'.op = "useAtomStore" /\ last'.result.store # NoStore) =>
         \E p \in Providers :
           /\ last'.result.store = storeState'[p]
           /\ AtOrAbove(p, last'.pos)]_vars

\* Two sibling Providers of the same store under the root, the second one
\* with the scope "x": a lookup of that scope from below the first one
\* returns the instance of the first one, and the Map of the root is empty.
C19_Witness ==
  /\ Mounted(1) /\ Mounted(2)
  /\ parent[1] = Root /\ parent[2] = Root
  /\ storeScope[1] = storeScope[2]
  /\ props[1].scope = Undefined /\ props[2].scope = Str("x")
  /\ last.op = "useAtomStore" /\ last.pos = 1
  /\ last.name = storeScope[1] /\ last.scope = Str("x")
  /\ last.result.store = storeState[1]
  /\ storeState[1] # storeState[2]
  /\ storeContext[Root] = EmptyObject

(***************************************************************************)
(* Properties of the mount (Spec)                                          *)
(***************************************************************************)
\* C20: the first render of a Provider leaves in its instance, for every
\* writable base field, the value of {...initialValues, ...props} (the prop
\* wins), written by hydration during that render and before any sync
\* effect of the Provider has run; a sync write happens only when the
\* effects of a commit run.
C20_HydrationBeforeFirstSync ==
  [][/\ \A p \in Providers :
         (phase[p] = "unmounted" /\ phase'[p] = "rendered") =>
           \A key \in writableAtomsWithoutExtend :
             /\ AtomRead(cells'[storeState'[p]][key])
                  = Seeded(props'[p], key)
             /\ Seeded(props'[p], key) # initialState[key] =>
                  hydrationLog'[storeState'[p]][key] = <<1>>
             /\ syncDeps'[p][key] = NoDeps
             /\ key \notin synced'[p]
     /\ \A p \in Providers :
         (synced'[p] # {} /\ synced'[p] # synced[p]) =>
           (phase[p] = "rendered" /\ phase'[p] \in {"idle", "dirty"})]_vars

\* Provider 1 has rendered for the first time with the initialValues
\* entry 1 and the prop 2 of count, and its effects have not run: the cell
\* holds the prop, written by hydration.
C20_Witness ==
  /\ phase[1] = "rendered"
  /\ resetDeps[1] = NoResetDeps
  /\ props[1].initialValues = [count |-> Num(1)]
  /\ props[1].fields = [count |-> Num(2)]
  /\ AtomRead(cells[storeState[1]].count) = Num(2)
  /\ hydrationLog[storeState[1]].count = <<1>>
  /\ syncDeps[1].count = NoDeps
  /\ synced[1] = {}

(***************************************************************************)
(* Properties of a key of both the base and the extension (SpecDeclare)    *)
(***************************************************************************)
\* C21: for a key that the base bundle and the extension both have, the
\* atom of the store descriptor, the writability recorded for the key and
\* the atom the get, set and use accessors of the key are bound to are
\* those of the extension.
C21_ExtensionWinsOnCollision ==
  (last.op = "createAtomStore" /\ last.calls > 0) =>
    \A key \in (DOMAIN last.declared.state) \cap (DOMAIN last.declared.extend) :
      LET cell == last.declared.extend[key]
      IN /\ last.api.atoms[key] = cell
         /\ last.api.atomIsWritable[key] = cell.write
         /\ last.bundle.get[key].atom = cell
         /\ (key \in DOMAIN last.bundle.set) = cell.write
         /\ (key \in DOMAIN last.bundle.use) = cell.write
         /\ cell.write =>
              (last.bundle.set[key].atom = cell
                 /\ last.bundle.use[key].atom = cell)

\* The base field count is a raw value and the extension binds a
\* read-only atom to count: the descriptor has the atom of the extension
\* and the bundle has no setter of count.
C21_Witness ==
  /\ last.op = "createAtomStore" /\ last.calls > 0
  /\ "count" \in DOMAIN last.declared.state
  /\ ~isAtom(last.declared.state.count)
  /\ "count" \in DOMAIN last.declared.extend
  /\ ~last.declared.extend.count.write
  /\ last.api.atoms.count = last.declared.extend.count
  /\ "count" \notin DOMAIN last.bundle.set
  /\ "count" \in last.api.writableAtomsWithoutExtend

(***************************************************************************)
(* Properties of the instance of a Provider (Spec)                         *)
(***************************************************************************)
\* C22: while the resetKey of a Provider is the one of its mount, whatever
\* its value, the Provider keeps its instance: the effects of the mount
\* commit queue no other instance, the effects of a commit whose resetKey
\* is the one of the previous commit queue none, and a render with no
\* queued instance keeps the instance.
C22_OneInstanceWhileResetKeyUnchanged ==
  [][\A p \in Providers :
       /\ (RunEffects(p) /\ resetDeps[p] = NoResetDeps) =>
            (pendingStore'[p] = NoStore /\ phase'[p] = "idle")
       /\ (RunEffects(p) /\ resetDeps[p] = props[p].resetKey) =>
            (pendingStore'[p] = NoStore /\ phase'[p] = "idle")
       /\ (phase[p] = "idle" /\ phase'[p] = "rendered") =>
            storeState'[p] = storeState[p]]_vars

(***************************************************************************)
(* Properties of the registry keys (SpecAlias)                             *)
(***************************************************************************)
\* C23: the instance a lookup of a store name returns, directly or through
\* the fallback to "provider", is the instance of a mounted Provider of
\* that store name, whatever the strings used as names and scopes.
C23_KeysDoNotAlias ==
  (last.op = "useAtomStore" /\ last.result.store # NoStore) =>
    \E p \in Providers :
      /\ Mounted(p)
      /\ storeState[p] = last.result.store
      /\ storeScope[p] = last.name

\* C24: the instance a Provider registers, hydrates and syncs is always one
\* the Provider created itself: an instance passed as the `store` prop of a
\* Provider is in no snapshot, no hydration and no sync effect is bound to
\* it, and it is never among the values of the fields.
C24_StorePropIgnored ==
  /\ \A q \in Positions : ExternalStore \notin InstancesOf(storeContext[q])
  /\ \A p \in Providers :
       Mounted(p) =>
         /\ storeState[p] \in Stores
         /\ pendingStore[p] \in Stores \cup {NoStore}
         /\ Key(storeScope[p], PROVIDER_SCOPE) \in DOMAIN storeContext[p]
         /\ storeContext[p][Key(storeScope[p], PROVIDER_SCOPE)] = storeState[p]
         /\ "store" \notin DOMAIN props[p].fields
         /\ \A key \in DOMAIN syncDeps[p] :
              syncDeps[p][key] # NoDeps => syncDeps[p][key][1] \in Stores
  /\ last.op = "get" => last.store \in Stores

\* A Provider that was passed an instance as its `store` prop, initial
\* values and a value for count has hydrated and synced an instance of its
\* own, and a consumer below it reads count from that instance.
C24_Witness ==
  /\ phase[1] = "idle"
  /\ StoreProp(props[1]) = ExternalStore
  /\ "count" \in hydrated[storeState[1]]
  /\ syncDeps[1].count = <<storeState[1], Num(2)>>
  /\ last.op = "get"
  /\ last.pos = 1
  /\ last.store = storeState[1]
  /\ last.result = Num(2)

====
